---- MODULE Spec2Model ----
(***************************************************************************)
(* Model of vital/models/new_lineages_new_label_study.py: the notebook     *)
(* script that loads or builds the "new lineages" dataset (the get_dataset *)
(* partition of catalog lineages into known-lineage groups and one         *)
(* "new_lineages" group) and then drives the Model object through          *)
(* dataset-property updates, add_ml_model and train.                       *)
(*                                                                         *)
(* Text is modelled as a sequence of tokens: a lineage name is a sequence  *)
(* of tokens, a line of lineages_in_tree.txt is a sequence of tokens in    *)
(* which TAB and NL are the tab and newline characters.  A group is the    *)
(* Python tuple (label, accessions), written <<label, accessions>>.        *)
(***************************************************************************)
EXTENDS Integers, Sequences, FiniteSets, TLC

VARIABLES
    pc,               \* position of the script (the next cell/statement)
    lineages,         \* line 43: covid19_genome.getLocalLineages(512)
    lineages_set,     \* line 44
    catalog,          \* the Genome Catalog: lineage name -> number of accessions
    tree_file,        \* the lines of lineages_in_tree.txt read at line 48
    lineages_in_tree, \* lines 47-55
    dataset,          \* line 56, the list get_dataset appends to and returns
    invocations,      \* how many times get_dataset has been invoked
    earlier,          \* the values returned by the invocations before the latest
    cap,              \* the slice bound of line 64
    registry_props,   \* the dataset properties held by the Model object
    ds_props,         \* line 94
    ml_model_name,    \* line 149
    newly_added,      \* lines 157, 184
    ml_models,        \* the ml models registered in the Model object
    calls,            \* the calls made on the Model object, in order, with outcome
    raised            \* the exception that ended the script, "none" if none

vars == << pc, lineages, lineages_set, catalog, tree_file, lineages_in_tree,
           dataset, invocations, earlier, cap, registry_props, ds_props, ml_model_name,
           newly_added, ml_models, calls, raised >>

----------------------------------------------------------------------------
(* Bounds of the model *)

MaxLineages == 3      \* longest catalog enumeration explored
MaxLines == 2         \* longest lineages_in_tree.txt explored
MaxCalls == 2         \* how often get_dataset is invoked when re-invoked

(* Program constants *)

per_lineage_cap == 64 \* line 64: [:64]
frag_len == 288       \* line 36
coverage == 4         \* line 111
ml_model_depth == 1   \* line 112
batch_size == 512     \* line 225
epochs == 1000        \* line 226

TAB == "\t"
NL == "\n"
NEW_LINEAGES == << "new_lineages" >>   \* the label of line 65

----------------------------------------------------------------------------
(* Inputs *)

Names == { << "A" >>, << "B" >>, << "C" >>, NEW_LINEAGES }

\* What the Genome Catalog may hold: the number of accessions of each lineage.
\* One catalog has lineages above, at and below the cap of line 64, the other
\* is the small catalog used with small caps.
CatalogAroundCap ==
    [ n \in Names |-> CASE n = << "A" >> -> per_lineage_cap + 1
                        [] n = << "B" >> -> per_lineage_cap
                        [] n = << "C" >> -> 0
                        [] OTHER -> 2 ]

CatalogSmall ==
    [ n \in Names |-> CASE n = << "A" >> -> 3
                        [] n = << "B" >> -> 1
                        [] n = << "C" >> -> 3
                        [] OTHER -> 1 ]

\* Lines a reference-tree file may hold.
FileLines ==
    { << "A", TAB, "x", NL >>,
      << "B", TAB, NL >>,
      << "B", NL >>,
      << "new_lineages", TAB, "y", NL >> }

RECURSIVE SeqsUpTo(_, _)
SeqsUpTo(S, n) ==
    IF n = 0 THEN { << >> }
    ELSE LET shorter == SeqsUpTo(S, n - 1)
         IN shorter \cup { Append(s, x) : s \in { t \in shorter : Len(t) = n - 1 }, x \in S }

Range(s) == { s[i] : i \in DOMAIN s }

Min(a, b) == IF a <= b THEN a ELSE b
Max(a, b) == IF a >= b THEN a ELSE b

----------------------------------------------------------------------------
(* Pure helpers of the script *)

\* line 50: line.split("\t")[0], the tokens before the first tab (the whole
\* line, newline included, when it holds no tab).
RECURSIVE SplitFirst(_)
SplitFirst(line) ==
    IF line = << >> THEN << >>
    ELSE IF Head(line) = TAB THEN << >>
    ELSE << Head(line) >> \o SplitFirst(Tail(line))

\* lines 47-52 without the test of line 51: every first field is kept.
RECURSIVE FilterTreeUnchecked(_, _)
FilterTreeUnchecked(lines, lset) ==
    IF lines = << >> THEN << >>
    ELSE << SplitFirst(Head(lines)) >> \o FilterTreeUnchecked(Tail(lines), lset)

\* lines 47-52: the first field of every line that names a catalog lineage,
\* one entry per line.
RECURSIVE FilterTree(_, _)
FilterTree(lines, lset) ==
    IF lines = << >> THEN << >>
    ELSE LET lineage == SplitFirst(Head(lines))
         IN (IF lineage \in lset THEN << lineage >> ELSE << >>)
            \o FilterTree(Tail(lines), lset)

\* Python's order on the strings that occur as lineage names
\* ("A" < "B" < "C" < "new_lineages" by code point).
NameRank(n) ==
    CASE n = << "A" >> -> 1
      [] n = << "B" >> -> 2
      [] n = << "C" >> -> 3
      [] OTHER -> 4

\* line 55: lineages_in_tree.sort()
RECURSIVE Insert(_, _)
Insert(x, s) ==
    IF s = << >> THEN << x >>
    ELSE IF NameRank(x) < NameRank(Head(s)) THEN << x >> \o s
    ELSE << Head(s) >> \o Insert(x, Tail(s))

RECURSIVE Sort(_)
Sort(s) == IF s = << >> THEN << >> ELSE Insert(Head(s), Sort(Tail(s)))

\* covid19_genome.getLocalAccessionsPath(lineage): the lineage's accession
\* paths in catalog order; the i-th path of lineage n is <<n, i>>.
getLocalAccessionsPath(cat, lineage) ==
    [ i \in 1..cat[lineage] |-> << lineage, i >> ]

\* s[:k] taking one element too many for k >= 0.
PySliceOffByOne(s, k) ==
    IF k >= 0 THEN SubSeq(s, 1, Min(k + 1, Len(s)))
    ELSE SubSeq(s, 1, Max(Len(s) + k, 0))

\* Python's s[:k], for k of either sign.
PySlice(s, k) ==
    IF k >= 0 THEN SubSeq(s, 1, Min(k, Len(s)))
    ELSE SubSeq(s, 1, Max(Len(s) + k, 0))

\* get_dataset with the slice of line 64 applied at line 62 as well.
get_dataset_capped_members(ds, lins, tree, cat, k) ==
    LET lineages_in_tree_set == Range(tree)
        RECURSIVE loop(_, _, _)
        loop(i, d, new_lineages) ==
            IF i > Len(lins) THEN Append(d, << NEW_LINEAGES, new_lineages >>)
            ELSE IF lins[i] \in lineages_in_tree_set
                 THEN loop(i + 1,
                           Append(d, << lins[i],
                                        PySlice(getLocalAccessionsPath(cat, lins[i]), k) >>),
                           new_lineages)
                 ELSE loop(i + 1, d,
                           new_lineages \o PySlice(getLocalAccessionsPath(cat, lins[i]), k))
    IN loop(1, ds, << >>)

\* lines 57-66: the body of get_dataset, run on the list `ds` it appends to
\* (the module-level `dataset`), with k the slice bound of line 64.
get_dataset(ds, lins, tree, cat, k) ==
    LET lineages_in_tree_set == Range(tree)
        RECURSIVE loop(_, _, _)
        loop(i, d, new_lineages) ==
            IF i > Len(lins) THEN Append(d, << NEW_LINEAGES, new_lineages >>)
            ELSE IF lins[i] \in lineages_in_tree_set
                 THEN loop(i + 1,
                           Append(d, << lins[i], getLocalAccessionsPath(cat, lins[i]) >>),
                           new_lineages)
                 ELSE loop(i + 1, d,
                           new_lineages \o PySlice(getLocalAccessionsPath(cat, lins[i]), k))
    IN loop(1, ds, << >>)

----------------------------------------------------------------------------
(* The cells after dataset creation: tables and pure helpers *)

sequencer_instrument == "ideal"   \* line 113

\* lines 116-142, the rates in units of 1/1000
sequencer_instrument_to_error_profile_map ==
    [ instrument \in { "ideal", "illumina", "ont", "pacbio", "roche" } |->
        CASE instrument = "ideal" ->
               [ substitution_rate |-> 0, insertion_rate |-> 0, deletion_rate |-> 0 ]
          [] instrument = "illumina" ->
               [ substitution_rate |-> 5, insertion_rate |-> 1, deletion_rate |-> 1 ]
          [] instrument = "ont" ->
               [ substitution_rate |-> 10, insertion_rate |-> 40, deletion_rate |-> 40 ]
          [] instrument = "pacbio" ->
               [ substitution_rate |-> 5, insertion_rate |-> 25, deletion_rate |-> 25 ]
          [] OTHER ->
               [ substitution_rate |-> 2, insertion_rate |-> 10, deletion_rate |-> 10 ] ]

\* lines 144-147; "invalid" stands for the raised exception
get_model_name(depth, cov, instrument) ==
    IF instrument \notin DOMAIN sequencer_instrument_to_error_profile_map
    THEN << "invalid" >>
    ELSE << "vit", depth, cov, instrument >>

\* The property mappings a freshly created or loaded dataset may report:
\* the Model object decides whether 'frag_len' is one of its properties.
DsSchemas ==
    { [ coverage |-> 1 ],
      [ coverage |-> 1, frag_len |-> 1 ] }

\* One call on the Model object, as recorded in `calls`.
Call(op, keys, outcome) == [ op |-> op, keys |-> keys, outcome |-> outcome ]

Outcomes == { "ok", "raise" }

\* The guard of line 95 never taken.
MissingFragLenIgnored(props) == FALSE

\* line 95: the guard of the raise at line 96

MissingFragLen(props) == ~ ("frag_len" \in DOMAIN props)

----------------------------------------------------------------------------
(* Initial state: the script has not run yet *)

InitWith(k, cat) ==
    /\ pc = "load"
    /\ lineages = << >>
    /\ lineages_set = { }
    /\ catalog = cat
    /\ tree_file = << >>
    /\ lineages_in_tree = << >>
    /\ dataset = << >>
    /\ invocations = 0
    /\ earlier = << >>
    /\ cap = k
    /\ registry_props = << >>
    /\ ds_props = << >>
    /\ ml_model_name = << >>
    /\ newly_added = TRUE
    /\ ml_models = { }
    /\ calls = << >>
    /\ raised = "none"

Init == InitWith(per_lineage_cap, CatalogAroundCap)

----------------------------------------------------------------------------
(* Lines 39-77: load the model, or build the dataset and create it *)

\* lines 39-41: load_model succeeds (the model brings its datasets and ml
\* models with it) or raises, and the except branch builds the dataset.
LoadModel ==
    /\ pc = "load"
    /\ \/ /\ pc' = "structures"
          /\ registry_props' \in DsSchemas
          /\ ml_models' \in { { }, { get_model_name(ml_model_depth, coverage,
                                                    sequencer_instrument) } }
       \/ /\ pc' = "lineages"
          /\ UNCHANGED << registry_props, ml_models >>
    /\ UNCHANGED << lineages, lineages_set, catalog, tree_file, lineages_in_tree,
                    dataset, invocations, earlier, cap, ds_props, ml_model_name, newly_added,
                    calls, raised >>

\* lines 42-44
GetLocalLineages ==
    /\ pc = "lineages"
    /\ \E ls \in SeqsUpTo(Names, MaxLineages) :
          /\ lineages' = ls
          /\ lineages_set' = Range(ls)
    /\ pc' = "tree"
    /\ UNCHANGED << catalog, tree_file, lineages_in_tree, dataset, invocations, earlier, cap,
                    registry_props, ds_props, ml_model_name, newly_added,
                    ml_models, calls, raised >>

\* lines 47-55: read the reference-tree file, keep the catalog's lineages, sort
ReadTreeFile ==
    /\ pc = "tree"
    /\ \E f \in SeqsUpTo(FileLines, MaxLines) :
          /\ tree_file' = f
          /\ lineages_in_tree' = Sort(FilterTree(f, lineages_set))
    /\ pc' = "dataset"
    /\ UNCHANGED << lineages, lineages_set, catalog, dataset, invocations, earlier, cap,
                    registry_props, ds_props, ml_model_name, newly_added,
                    ml_models, calls, raised >>

\* line 48: open() raises when the file is missing or unreadable
ReadTreeFileFails ==
    /\ pc = "tree"
    /\ pc' = "raised"
    /\ raised' = "FileNotFoundError"
    /\ UNCHANGED << lineages, lineages_set, catalog, tree_file, lineages_in_tree,
                    dataset, invocations, earlier, cap, registry_props, ds_props,
                    ml_model_name, newly_added, ml_models, calls >>

\* lines 56-74: dataset = [] ; dataset = get_dataset()
CallGetDataset ==
    /\ pc = "dataset"
    /\ LET result == get_dataset(<< >>, lineages, lineages_in_tree, catalog, cap)
       IN dataset' = result
    /\ invocations' = invocations + 1
    /\ earlier' = << >>
    /\ pc' = "create"
    /\ UNCHANGED << lineages, lineages_set, catalog, tree_file, lineages_in_tree,
                    cap, registry_props, ds_props, ml_model_name, newly_added,
                    ml_models, calls, raised >>

\* lines 57-66 once more: get_dataset() invoked again on the same inputs; the
\* list it appends to is the module-level `dataset` of the previous call.
ReinvokeGetDataset ==
    /\ pc = "create"
    /\ invocations < MaxCalls
    /\ LET result == get_dataset(dataset, lineages, lineages_in_tree, catalog, cap)
       IN dataset' = result
    /\ invocations' = invocations + 1
    /\ earlier' = Append(earlier, dataset)
    /\ UNCHANGED << pc, lineages, lineages_set, catalog, tree_file,
                    lineages_in_tree, cap, registry_props, ds_props,
                    ml_model_name, newly_added, ml_models, calls, raised >>

\* lines 76-77: Model(model_name); model.create_datasets(...)
CreateDatasets ==
    /\ pc = "create"
    /\ \E outcome \in Outcomes :
          /\ calls' = Append(calls, Call("create_datasets", { }, outcome))
          /\ IF outcome = "ok"
             THEN /\ registry_props' \in DsSchemas
                  /\ pc' = "structures"
                  /\ UNCHANGED raised
             ELSE /\ pc' = "raised"
                  /\ raised' = "create_datasets"
                  /\ UNCHANGED registry_props
    /\ UNCHANGED << lineages, lineages_set, catalog, tree_file, lineages_in_tree,
                    dataset, invocations, earlier, cap, ds_props, ml_model_name, newly_added,
                    ml_models >>

----------------------------------------------------------------------------
(* Lines 85-226: the cells run on the created or loaded model *)

\* lines 85-86: print the structures and the hyper parameters of the first
PrintStructures ==
    /\ pc = "structures"
    /\ \E outcome \in Outcomes :
          /\ calls' = Append(calls, Call("get_ml_model_structures", { }, outcome))
          /\ IF outcome = "ok"
             THEN pc' = "props" /\ UNCHANGED raised
             ELSE pc' = "raised" /\ raised' = "get_ml_model_structures"
    /\ UNCHANGED << lineages, lineages_set, catalog, tree_file, lineages_in_tree,
                    dataset, invocations, earlier, cap, registry_props, ds_props,
                    ml_model_name, newly_added, ml_models >>

\* lines 92-96: ds_props = model.get_ds_props(); raise when it lacks 'frag_len'
GetDsProps ==
    /\ pc = "props"
    /\ \E outcome \in Outcomes :
          IF outcome = "ok"
          THEN /\ ds_props' = registry_props
               /\ calls' = Append(calls, Call("get_ds_props", DOMAIN registry_props, "ok"))
               /\ IF MissingFragLen(registry_props)
                  THEN /\ pc' = "raised"
                       /\ raised' = "No fragment length exist in the dataset props."
                  ELSE /\ pc' = "update_frag_len"
                       /\ UNCHANGED raised
          ELSE /\ calls' = Append(calls, Call("get_ds_props", { }, "raise"))
               /\ pc' = "raised"
               /\ raised' = "get_ds_props"
               /\ UNCHANGED ds_props
    /\ UNCHANGED << lineages, lineages_set, catalog, tree_file, lineages_in_tree,
                    dataset, invocations, earlier, cap, registry_props,
                    ml_model_name, newly_added, ml_models >>

\* lines 97-99: model.update_ds_props({'frag_len': frag_len})
UpdateFragLen ==
    /\ pc = "update_frag_len"
    /\ \E outcome \in Outcomes :
          /\ calls' = Append(calls, Call("update_ds_props", { "frag_len" }, outcome))
          /\ IF outcome = "ok"
             THEN /\ registry_props' = [ frag_len |-> frag_len ] @@ registry_props
                  /\ pc' = "name"
                  /\ UNCHANGED raised
             ELSE /\ pc' = "raised"
                  /\ raised' = "update_ds_props"
                  /\ UNCHANGED registry_props
    /\ UNCHANGED << lineages, lineages_set, catalog, tree_file, lineages_in_tree,
                    dataset, invocations, earlier, cap, ds_props, ml_model_name, newly_added,
                    ml_models >>

\* lines 111-149: ml_model_name = get_model_name(...)
NameModel ==
    /\ pc = "name"
    /\ LET name == get_model_name(ml_model_depth, coverage, sequencer_instrument)
       IN IF name = << "invalid" >>
          THEN /\ pc' = "raised"
               /\ raised' = "Invalid sequencer instrument"
               /\ UNCHANGED ml_model_name
          ELSE /\ pc' = "add"
               /\ ml_model_name' = name
               /\ UNCHANGED raised
    /\ UNCHANGED << lineages, lineages_set, catalog, tree_file, lineages_in_tree,
                    dataset, invocations, earlier, cap, registry_props, ds_props, newly_added,
                    ml_models, calls >>

\* lines 157-185: try: model.add_ml_model(...) except: newly_added = False.
\* The call raises when the name is already registered, and may raise for
\* any other reason the Model object has.
AddMlModel ==
    /\ pc = "add"
    /\ \E outcome \in Outcomes :
          /\ (ml_model_name \in ml_models) => outcome = "raise"
          /\ calls' = Append(calls, Call("add_ml_model", { }, outcome))
          /\ IF outcome = "ok"
             THEN /\ newly_added' = TRUE
                  /\ ml_models' = ml_models \cup { ml_model_name }
                  /\ pc' = "list"
                  /\ UNCHANGED raised
             ELSE /\ newly_added' = FALSE
                  /\ pc' = "list"
                  /\ UNCHANGED << ml_models, raised >>
    /\ UNCHANGED << lineages, lineages_set, catalog, tree_file, lineages_in_tree,
                    dataset, invocations, earlier, cap, registry_props, ds_props,
                    ml_model_name >>

\* lines 188-194: models = model.list_ml_models(); print
ListMlModels ==
    /\ pc = "list"
    /\ \E outcome \in Outcomes :
          /\ calls' = Append(calls, Call("list_ml_models", { }, outcome))
          /\ IF outcome = "ok"
             THEN pc' = "coverage" /\ UNCHANGED raised
             ELSE pc' = "raised" /\ raised' = "list_ml_models"
    /\ UNCHANGED << lineages, lineages_set, catalog, tree_file, lineages_in_tree,
                    dataset, invocations, earlier, cap, registry_props, ds_props,
                    ml_model_name, newly_added, ml_models >>

\* lines 217-219: model.update_ds_props({"coverage": coverage} | error profile)
UpdateCoverage ==
    /\ pc = "coverage"
    /\ LET patch == [ coverage |-> coverage ]
                    @@ sequencer_instrument_to_error_profile_map[sequencer_instrument]
       IN \E outcome \in Outcomes :
             /\ calls' = Append(calls, Call("update_ds_props", DOMAIN patch, outcome))
             /\ IF outcome = "ok"
                THEN /\ registry_props' = patch @@ registry_props
                     /\ pc' = "batch"
                     /\ UNCHANGED raised
                ELSE /\ pc' = "raised"
                     /\ raised' = "update_ds_props"
                     /\ UNCHANGED registry_props
    /\ UNCHANGED << lineages, lineages_set, catalog, tree_file, lineages_in_tree,
                    dataset, invocations, earlier, cap, ds_props, ml_model_name, newly_added,
                    ml_models >>

\* line 225: model.set_ds_batch_size(512)
SetDsBatchSize ==
    /\ pc = "batch"
    /\ \E outcome \in Outcomes :
          /\ calls' = Append(calls, Call("set_ds_batch_size", { }, outcome))
          /\ IF outcome = "ok"
             THEN pc' = "train" /\ UNCHANGED raised
             ELSE pc' = "raised" /\ raised' = "set_ds_batch_size"
    /\ UNCHANGED << lineages, lineages_set, catalog, tree_file, lineages_in_tree,
                    dataset, invocations, earlier, cap, registry_props, ds_props,
                    ml_model_name, newly_added, ml_models >>

\* line 226: model.train(ml_model_name, epochs=1000)
Train ==
    /\ pc = "train"
    /\ \E outcome \in Outcomes :
          /\ calls' = Append(calls, Call("train", { }, outcome))
          /\ IF outcome = "ok"
             THEN pc' = "done" /\ UNCHANGED raised
             ELSE pc' = "raised" /\ raised' = "train"
    /\ UNCHANGED << lineages, lineages_set, catalog, tree_file, lineages_in_tree,
                    dataset, invocations, earlier, cap, registry_props, ds_props,
                    ml_model_name, newly_added, ml_models >>

----------------------------------------------------------------------------
(* Specifications *)

BuildDataset ==
    \/ LoadModel
    \/ GetLocalLineages
    \/ ReadTreeFile
    \/ ReadTreeFileFails
    \/ CallGetDataset
    \/ CreateDatasets

Workflow ==
    \/ PrintStructures
    \/ GetDsProps
    \/ UpdateFragLen
    \/ NameModel
    \/ AddMlModel
    \/ ListMlModels
    \/ UpdateCoverage
    \/ SetDsBatchSize
    \/ Train

\* The script as written: get_dataset is invoked once, at line 74.
Next == BuildDataset \/ Workflow

Spec == Init /\ [][Next]_vars

\* The except branch alone (lines 39-77): the script up to create_datasets.
SpecBuild == Init /\ [][BuildDataset]_vars

\* The script with get_dataset invoked again before the dataset is created.
NextReinvoke == Next \/ ReinvokeGetDataset

SpecReinvoke == Init /\ [][NextReinvoke]_vars

\* The partition with the slice bound of line 64 as an input.
CapInputs == { -1, 0, 2, per_lineage_cap }

InitCap == \E k \in CapInputs, cat \in { CatalogSmall, CatalogAroundCap } : InitWith(k, cat)

SpecCap == InitCap /\ [][BuildDataset]_vars

----------------------------------------------------------------------------
(* Vocabulary of the properties *)

\* The reference membership get_dataset tests lineages against (line 59).
Membership == Range(lineages_in_tree)

\* get_dataset has returned exactly once, as in the script (line 74).
ReturnedOnce == invocations = 1

Label(g) == g[1]
Accessions(g) == g[2]

\* The first field of a line, read off the line: everything before its first
\* tab, the whole line when it has none.
FirstTab(line) ==
    IF \E k \in DOMAIN line : line[k] = TAB
    THEN CHOOSE k \in DOMAIN line :
            line[k] = TAB /\ \A j \in 1..(k - 1) : line[j] # TAB
    ELSE Len(line) + 1

FirstField(line) == [ j \in 1..(FirstTab(line) - 1) |-> line[j] ]

\* The lineage's first n accessions in catalog order.
FirstAccessions(lineage, n) == [ j \in 1..n |-> << lineage, j >> ]

Occurrences(x, s) == Cardinality({ i \in DOMAIN s : s[i] = x })

GroupsLabelled(x) == { i \in DOMAIN dataset : Label(dataset[i]) = x }

\* The concatenation, over the catalog in order from position i, of the first
\* min(K, n) accessions of every lineage outside the membership.
RECURSIVE ExpectedNovel(_)
ExpectedNovel(i) ==
    IF i > Len(lineages) THEN << >>
    ELSE (IF lineages[i] \in Membership THEN << >>
          ELSE FirstAccessions(lineages[i], Min(cap, catalog[lineages[i]])))
         \o ExpectedNovel(i + 1)

\* One group per member lineage from position i on, in catalog order, each
\* with the lineage's full accession list.
RECURSIVE ExpectedKnown(_)
ExpectedKnown(i) ==
    IF i > Len(lineages) THEN << >>
    ELSE (IF lineages[i] \in Membership
          THEN << << lineages[i], FirstAccessions(lineages[i], catalog[lineages[i]]) >> >>
          ELSE << >>)
         \o ExpectedKnown(i + 1)

CallsOf(ops) == { i \in DOMAIN calls : calls[i].op \in ops }

----------------------------------------------------------------------------
(* Properties *)

\* C1: every lineage name of the catalog list is accounted for in exactly one
\* group of the returned list: it is the label of exactly one group, or it
\* contributes to the new_lineages group (the last one); never two groups.
C1_EveryLineageInExactlyOneGroup ==
    ReturnedOnce =>
        \A x \in Range(lineages) :
            Cardinality(GroupsLabelled(x)
                        \cup (IF x \in Membership THEN { } ELSE { Len(dataset) })) = 1

\* C2: the returned list holds exactly one group labelled "new_lineages", and
\* that group is the last element.
C2_ExactlyOneNewLineagesGroupLast ==
    ReturnedOnce =>
        /\ Len(dataset) >= 1
        /\ Label(dataset[Len(dataset)]) = NEW_LINEAGES
        /\ Cardinality(GroupsLabelled(NEW_LINEAGES)) = 1

\* C3: the accessions of the new_lineages group are the concatenation, in
\* catalog order, of the first min(K, n) accessions of each lineage outside
\* the membership; member lineages contribute nothing.
C3_NovelGroupIsCappedConcatenation ==
    ReturnedOnce =>
        Accessions(dataset[Len(dataset)]) = ExpectedNovel(1)

\* C3 witness: a non-member above the cap, a non-member below it with
\* accessions, and a member, have been partitioned.
C3_Witness ==
    /\ ReturnedOnce
    /\ \E i, j, m \in DOMAIN lineages :
          /\ lineages[i] \notin Membership /\ catalog[lineages[i]] > cap
          /\ lineages[j] \notin Membership /\ catalog[lineages[j]] \in 1..cap
          /\ lineages[m] \in Membership /\ catalog[lineages[m]] > 0

\* C4: the groups ahead of the last are one per member lineage, in catalog
\* order, labelled with the lineage and holding its full accession list; and
\* the worked example (A, B, C; members A, B; cap 2) gives the stated list.
C4_KnownGroupsFullAndInCatalogOrder ==
    ReturnedOnce =>
        /\ SubSeq(dataset, 1, Len(dataset) - 1) = ExpectedKnown(1)
        /\ ( /\ lineages = << << "A" >>, << "B" >>, << "C" >> >>
             /\ Membership = { << "A" >>, << "B" >> }
             /\ cap = 2
             /\ catalog = CatalogSmall )
           => dataset =
                << << << "A" >>, << << << "A" >>, 1 >>, << << "A" >>, 2 >>, << << "A" >>, 3 >> >> >>,
                   << << "B" >>, << << << "B" >>, 1 >> >> >>,
                   << NEW_LINEAGES, << << << "C" >>, 1 >>, << << "C" >>, 2 >> >> >> >>

\* C4 witness: the worked example has been partitioned.
C4_Witness ==
    /\ ReturnedOnce
    /\ lineages = << << "A" >>, << "B" >>, << "C" >> >>
    /\ Membership = { << "A" >>, << "B" >> }
    /\ cap = 2
    /\ catalog = CatalogSmall

\* C5: no two groups of the returned list carry the same label.
C5_LabelsUnique ==
    ReturnedOnce =>
        \A i, j \in DOMAIN dataset :
            Label(dataset[i]) = Label(dataset[j]) => i = j

\* C6: every invocation of get_dataset on the same inputs returns the same
\* list: what an earlier invocation returned is what the latest one returned.
C6_ReinvocationReturnsSameList ==
    \A i \in DOMAIN earlier : earlier[i] = dataset

C8_MembershipIsFilteredFirstFields ==
    /\ Membership = { FirstField(tree_file[i]) : i \in DOMAIN tree_file }
                    \cap Range(lineages)
    /\ pc = "dataset" => raised = "none"
    /\ ReturnedOnce =>
          \A x \in Names \cup { FirstField(tree_file[i]) : i \in DOMAIN tree_file } :
              Cardinality(GroupsLabelled(x) \ { Len(dataset) }) =
                  IF x \in Membership THEN Occurrences(x, lineages) ELSE 0

\* C8 witness: a catalog lineage named on two lines of the file has been
\* partitioned.
C8_Witness ==
    /\ ReturnedOnce
    /\ \E i, j \in DOMAIN tree_file :
          /\ i # j
          /\ FirstField(tree_file[i]) = FirstField(tree_file[j])
          /\ FirstField(tree_file[i]) \in Range(lineages)

\* C9: train is called only after update_ds_props has supplied frag_len; and
\* when get_ds_props returns a mapping without 'frag_len' the script has
\* raised, with no update_ds_props, add_ml_model or train call made.
C9_TrainOnlyAfterFragLen ==
    /\ \A j \in CallsOf({ "train" }) :
          \E i \in 1..(j - 1) :
              calls[i] = Call("update_ds_props", { "frag_len" }, "ok")
    /\ \A i \in CallsOf({ "get_ds_props" }) :
          (calls[i].outcome = "ok" /\ "frag_len" \notin calls[i].keys) =>
              /\ pc = "raised"
              /\ raised = "No fragment length exist in the dataset props."
              /\ CallsOf({ "update_ds_props", "add_ml_model", "train" }) = { }

\* C9 witness: the script has run to the end and train has been called.
C9_Witness ==
    /\ pc = "done"
    /\ CallsOf({ "train" }) # { }

\* C10: a call on the Model object that raises ends the script with that
\* failure: it is the last call made, and the failure is what the script
\* raised.
C10_CollaboratorFailureSurfaces ==
    \A i \in DOMAIN calls :
        calls[i].outcome = "raise" =>
            /\ i = Len(calls)
            /\ pc = "raised"
            /\ raised = calls[i].op

====
